---------------------------- MODULE Spec2Model ----------------------------
(***************************************************************************)
(* Model of the stream scanner of the dxf parser (DxfStreamScanner.ts) and *)
(* of the streaming driver parseStreamIncremental, together with the error *)
(* classes of errors.ts that they raise.                                   *)
(*                                                                         *)
(* A string is a sequence of one-character strings.  A JavaScript number   *)
(* is a record [nan, m, e] standing for m / 10^e (NaN when nan is TRUE).   *)
(* An optional value (a field that may be undefined) is <<>> or <<v>>.     *)
(***************************************************************************)
EXTENDS Integers, Sequences, FiniteSets, TLC

VARIABLES
    scanner,   \* the DxfStreamScanner object: buffer, lines, pointer, eof, lineNumber, lastReadGroup
    text,      \* the whole text the source will deliver
    pos,       \* number of characters of text delivered so far
    ret,       \* outcome of the last call made on the scanner (returned value or thrown error)
    prev,      \* outcome of the call made before that one
    parseFn,   \* the parse step handed to parseStreamIncremental
    promise,   \* the deferred result of parseStreamIncremental
    stream,    \* the events the stream has emitted so far
    doc,       \* the lines and line terminators the text was written from
    pc         \* the handler of parseStreamIncremental that is running, "idle" between events

vars == <<scanner, text, pos, ret, prev, parseFn, promise, stream, doc, pc>>

----------------------------------------------------------------------------
(* Bounds *)

\* rewind is not taken when it would move the pointer below -MaxBelow
MaxBelow == 3
\* largest numberOfGroups passed to rewind
MaxRewind == 2
\* largest group code drawn for the coercion table
MaxCode == 1100
\* largest number of lines of a document written line by line
MaxDocLines == 3
\* largest number given to an error constructor (line, pointer, code)
MaxField == 1

----------------------------------------------------------------------------
(* Characters and strings *)

CR == "\r"
LF == "\n"
WhiteSpace == {" ", "\t", CR, LF}
Digits == {"0", "1", "2", "3", "4", "5", "6", "7", "8", "9"}

DigitVal(c) ==
    CASE c = "0" -> 0 [] c = "1" -> 1 [] c = "2" -> 2 [] c = "3" -> 3
      [] c = "4" -> 4 [] c = "5" -> 5 [] c = "6" -> 6 [] c = "7" -> 7
      [] c = "8" -> 8 [] c = "9" -> 9

Undefined == <<>>
Some(v) == <<v>>

NaN == [nan |-> TRUE, m |-> 0, e |-> 0]
Num(m, e) == [nan |-> FALSE, m |-> m, e |-> e]

\* String.prototype.trim
RECURSIVE TrimLeft(_)
TrimLeft(s) ==
    IF s # <<>> /\ Head(s) \in WhiteSpace THEN TrimLeft(Tail(s)) ELSE s

RECURSIVE TrimRight(_)
TrimRight(s) ==
    IF s # <<>> /\ s[Len(s)] \in WhiteSpace
    THEN TrimRight(SubSeq(s, 1, Len(s) - 1))
    ELSE s

trim(s) == TrimRight(TrimLeft(s))

\* the longest prefix of s made of decimal digits
RECURSIVE DigitPrefix(_)
DigitPrefix(s) ==
    IF s # <<>> /\ Head(s) \in Digits
    THEN <<Head(s)>> \o DigitPrefix(Tail(s))
    ELSE <<>>

RECURSIVE DigitsValue(_)
DigitsValue(ds) ==
    IF ds = <<>> THEN 0
    ELSE 10 * DigitsValue(SubSeq(ds, 1, Len(ds) - 1)) + DigitVal(ds[Len(ds)])

RECURSIVE Pow10(_)
Pow10(n) == IF n = 0 THEN 1 ELSE 10 * Pow10(n - 1)

\* a number m / 10^e with the trailing zeros of the fraction removed
RECURSIVE Normalize(_, _)
Normalize(m, e) ==
    IF e > 0 /\ m % 10 = 0 THEN Normalize(m \div 10, e - 1) ELSE Num(m, e)

\* parseInt(str) with no radix, str an optional string: leading white space
\* is skipped, an optional sign is read, then decimal digits up to the first
\* other character; NaN when there is no digit (and for undefined).
parseInt(optStr) ==
    IF optStr = Undefined THEN NaN
    ELSE
        LET s    == TrimLeft(optStr[1])
            neg  == s # <<>> /\ Head(s) = "-"
            body == IF s # <<>> /\ Head(s) \in {"-", "+"} THEN Tail(s) ELSE s
            ds   == DigitPrefix(body)
        IN  IF ds = <<>> THEN NaN
            ELSE Num(IF neg THEN 0 - DigitsValue(ds) ELSE DigitsValue(ds), 0)

\* parseFloat(str): leading white space, optional sign, digits, optional
\* fraction; NaN when neither part has a digit.  (No text of the model holds
\* an exponent, "Infinity" or a hexadecimal prefix.)
parseFloat(str) ==
    LET s     == TrimLeft(str)
        neg   == s # <<>> /\ Head(s) = "-"
        body  == IF s # <<>> /\ Head(s) \in {"-", "+"} THEN Tail(s) ELSE s
        ip    == DigitPrefix(body)
        after == SubSeq(body, Len(ip) + 1, Len(body))
        fp    == IF after # <<>> /\ Head(after) = "."
                 THEN DigitPrefix(Tail(after)) ELSE <<>>
        mag   == DigitsValue(ip) * Pow10(Len(fp)) + DigitsValue(fp)
    IN  IF ip = <<>> /\ fp = <<>> THEN NaN
        ELSE Normalize(IF neg THEN 0 - mag ELSE mag, Len(fp))

\* split that takes every \r and every \n as a terminator of its own
RECURSIVE SplitEachTerminator(_, _)
SplitEachTerminator(s, cur) ==
    IF s = <<>> THEN <<cur>>
    ELSE IF Head(s) \in {CR, LF}
         THEN <<cur>> \o SplitEachTerminator(Tail(s), <<>>)
    ELSE SplitEachTerminator(Tail(s), Append(cur, Head(s)))

splitLinesEachTerminator(s) == SplitEachTerminator(s, <<>>)

\* String.prototype.split(/\r\n|\r|\n/): the pieces between the terminators,
\* the text after the last terminator (possibly empty) being the last piece.
RECURSIVE SplitFrom(_, _)
SplitFrom(s, cur) ==
    IF s = <<>> THEN <<cur>>
    ELSE IF Head(s) = CR /\ Len(s) >= 2 /\ s[2] = LF
         THEN <<cur>> \o SplitFrom(SubSeq(s, 3, Len(s)), <<>>)
    ELSE IF Head(s) \in {CR, LF}
         THEN <<cur>> \o SplitFrom(Tail(s), <<>>)
    ELSE SplitFrom(Tail(s), Append(cur, Head(s)))

splitLines(s) == SplitFrom(s, <<>>)

\* the three line terminators the split accepts
LineTerminators == {<<LF>>, <<CR>>, <<CR, LF>>}

\* a document written line by line: doc.lines[i] is followed by doc.ends[i]
NoDoc == [lines |-> <<>>, ends |-> <<>>]

RECURSIVE Render(_, _)
Render(ls, es) ==
    IF ls = <<>> THEN <<>>
    ELSE Head(ls) \o Head(es) \o Render(Tail(ls), Tail(es))

\* the text of a document
TextOf(d) == Render(d.lines, d.ends)

\* the same document with every line terminated by \n
Canonical(d) == [d EXCEPT !.ends = [i \in DOMAIN d.ends |-> <<LF>>]]


----------------------------------------------------------------------------
(* errors.ts *)

\* the message given to a constructor; the base message of parseBoolean
\* embeds the literal, kept as a field beside the fixed wording
NeedMoreData == "Unexpected end of input: need more data"
NextAfterEOF == "Cannot call next after EOF group has been read"
PeekAfterEOF == "Cannot call peek after EOF group has been read"
CannotCast == "Value '${str}' cannot be cast to Boolean type"
StreamError == "Stream error"

\* formatMessage: the base message, then one part per defined context field
Part(name, opt) == IF opt = Undefined THEN <<>> ELSE <<[name |-> name, value |-> opt[1]]>>

\* JSON.stringify of an optional string: the text between double quotes
\* (no text of the model holds a character that is escaped)
JSONstringify(opt) ==
    IF opt = Undefined THEN Undefined ELSE Some(<<"\"">> \o opt[1] \o <<"\"">>)

\* formatMessage that tests each field for truthiness instead of comparing
\* with undefined: the number 0 and the empty string add no part
PartIfTruthy(name, opt, shown) ==
    IF opt = Undefined \/ opt[1] = 0 \/ opt[1] = <<>> THEN <<>>
    ELSE <<[name |-> name, value |-> shown[1]]>>

formatMessageTruthy(message, context) ==
    <<[name |-> "message", value |-> message]>>
        \o PartIfTruthy("line", context.line, context.line)
        \o PartIfTruthy("section", context.section, context.section)
        \o PartIfTruthy("pointer", context.pointer, context.pointer)
        \o PartIfTruthy("code", context.groupCode, context.groupCode)
        \o PartIfTruthy("value", context.groupValue, JSONstringify(context.groupValue))
        \o PartIfTruthy("code", context.code, context.code)
        \o PartIfTruthy("value", context.rawValue, JSONstringify(context.rawValue))
        \o PartIfTruthy("expected", context.expectedType, context.expectedType)

formatMessage(message, context) ==
    <<[name |-> "message", value |-> message]>>
        \o Part("line", context.line)
        \o Part("section", context.section)
        \o Part("pointer", context.pointer)
        \o Part("code", context.groupCode)
        \o Part("value", JSONstringify(context.groupValue))
        \o Part("code", context.code)
        \o Part("value", JSONstringify(context.rawValue))
        \o Part("expected", context.expectedType)

NoContext ==
    [line |-> Undefined, section |-> Undefined, pointer |-> Undefined,
     groupCode |-> Undefined, groupValue |-> Undefined, code |-> Undefined,
     rawValue |-> Undefined, expectedType |-> Undefined]

\* new DxfParseError(message, line, section, cause); str is the literal a
\* template message embeds (Undefined for a fixed message)
DxfParseError(message, str, line, section, cause) ==
    [name |-> "DxfParseError",
     message |-> formatMessage(message, [NoContext EXCEPT !.line = line, !.section = section]),
     str |-> str,
     line |-> line, section |-> section, cause |-> cause,
     pointer |-> Undefined, groupCode |-> Undefined, groupValue |-> Undefined,
     code |-> Undefined, rawValue |-> Undefined, expectedType |-> Undefined]

\* new DxfScannerError(message, pointer, groupCode, groupValue, cause)
DxfScannerError(message, pointer, groupCode, groupValue, cause) ==
    [name |-> "DxfScannerError",
     message |-> formatMessage(message, [NoContext EXCEPT !.pointer = Some(pointer),
                                                          !.groupCode = groupCode,
                                                          !.groupValue = groupValue]),
     str |-> Undefined,
     line |-> Undefined, section |-> Undefined, cause |-> cause,
     pointer |-> Some(pointer), groupCode |-> groupCode, groupValue |-> groupValue,
     code |-> Undefined, rawValue |-> Undefined, expectedType |-> Undefined]

\* new DxfValueError(message, code, rawValue, expectedType)
DxfValueError(message, code, rawValue, expectedType) ==
    [name |-> "DxfValueError",
     message |-> formatMessage(message, [NoContext EXCEPT !.code = Some(code),
                                                          !.rawValue = Some(rawValue),
                                                          !.expectedType = expectedType]),
     str |-> Undefined,
     line |-> Undefined, section |-> Undefined, cause |-> Undefined,
     pointer |-> Undefined, groupCode |-> Undefined, groupValue |-> Undefined,
     code |-> Some(code), rawValue |-> Some(rawValue), expectedType |-> expectedType]

\* the engine's own error for reading a property of undefined:
\* this.lines[i].trim() with no line at index i
TypeError ==
    [name |-> "TypeError",
     message |-> <<[name |-> "message", value |-> "Cannot read properties of undefined (reading 'trim')"]>>,
     str |-> Undefined,
     line |-> Undefined, section |-> Undefined, cause |-> Undefined,
     pointer |-> Undefined, groupCode |-> Undefined, groupValue |-> Undefined,
     code |-> Undefined, rawValue |-> Undefined, expectedType |-> Undefined]

\* the message argument the error was built with
BaseMessage(err) == err.message[1].value

----------------------------------------------------------------------------
(* DxfStreamScanner *)

EOFString == <<"E", "O", "F">>

StringValue(str) == [type |-> "string", str |-> str, num |-> NaN, bool |-> FALSE]
FloatValue(n) == [type |-> "float", str |-> <<>>, num |-> n, bool |-> FALSE]
IntegerValue(n) == [type |-> "integer", str |-> <<>>, num |-> n, bool |-> FALSE]
BooleanValue(b) == [type |-> "boolean", str |-> <<>>, num |-> NaN, bool |-> b]

\* the outcome of a call: a returned value or a thrown error; line is what
\* getCurrentLineNumber() gives right after the call
\* what a method declared void returns
Void == [type |-> "undefined"]

Return(op, arg, value) ==
    [op |-> op, arg |-> arg, kind |-> "return", value |-> Some(value), error |-> Undefined, line |-> 0]
Throw(op, arg, err) ==
    [op |-> op, arg |-> arg, kind |-> "throw", value |-> Undefined, error |-> Some(err), line |-> 0]
NoCall ==
    [op |-> "new", arg |-> 0, kind |-> "return", value |-> Undefined, error |-> Undefined, line |-> 0]

\* new DxfStreamScanner()
NewScanner ==
    [buffer |-> <<>>, lines |-> <<>>, pointer |-> 0, eof |-> FALSE,
     lineNumber |-> 0, lastReadGroup |-> Undefined]

\* this.lines[i]: undefined outside 0 .. length-1
lineAt(s, i) ==
    IF i >= 0 /\ i < Len(s.lines) THEN Some(s.lines[i + 1]) ELSE Undefined

\* addChunk that stores every fragment of the split as a line, the last
\* (possibly incomplete) one included
addChunkWithoutPop(s, chunk) ==
    LET splitted == splitLines(s.buffer \o chunk)
        n        == Len(splitted)
        s1       == [s EXCEPT !.buffer = splitted[n],
                              !.lines = @ \o splitted]
    IN  [s |-> s1, ret |-> Return("addChunk", Len(chunk), Num(Len(s1.lines) - Len(s.lines), 0))]

addChunk(s, chunk) ==
    LET splitted == splitLines(s.buffer \o chunk)
        n        == Len(splitted)
        s1       == [s EXCEPT !.buffer = splitted[n],
                              !.lines = @ \o SubSeq(splitted, 1, n - 1)]
    IN  [s |-> s1, ret |-> Return("addChunk", Len(chunk), Num(Len(s1.lines) - Len(s.lines), 0))]

\* finalize that pushes the buffer without emptying it
finalizeKeepingBuffer(s) ==
    LET s1 == IF Len(s.buffer) > 0
              THEN [s EXCEPT !.lines = Append(@, s.buffer)]
              ELSE s
    IN  [s |-> s1, ret |-> Return("finalize", 0, Void)]

finalize(s) ==
    LET s1 == IF Len(s.buffer) > 0
              THEN [s EXCEPT !.lines = Append(@, s.buffer), !.buffer = <<>>]
              ELSE s
    IN  [s |-> s1, ret |-> Return("finalize", 0, Void)]

getCurrentLineNumber(s) == s.lineNumber

\* hasNext without its EOF check
hasNextIgnoringEOF(s) ==
    s.pointer <= Len(s.lines) - 2

hasNext(s) ==
    IF s.eof THEN FALSE
    ELSE s.pointer <= Len(s.lines) - 2

isEOF(s) == s.eof

\* needsData that asks for data only once no line at all is unread
needsDataOffByOne(s) == Len(s.lines) = 0 \/ s.pointer >= Len(s.lines)

needsData(s) == Len(s.lines) = 0 \/ s.pointer >= Len(s.lines) - 1

parseBoolean(s, str) ==
    IF str = <<"0">> THEN [threw |-> FALSE, value |-> BooleanValue(FALSE), error |-> Undefined]
    ELSE IF str = <<"1">> THEN [threw |-> FALSE, value |-> BooleanValue(TRUE), error |-> Undefined]
    ELSE [threw |-> TRUE, value |-> BooleanValue(FALSE),
          error |-> Some(DxfParseError(CannotCast, Some(str), Some(s.lineNumber), Undefined, Undefined))]

InRange(code, lo, hi) == ~code.nan /\ code.m >= lo /\ code.m <= hi

\* the conversion parseGroupValue applies to the value of a group with this
\* code (every comparison with NaN is false)
groupValueType(code) ==
    IF ~code.nan /\ code.m <= 9 THEN "string"
    ELSE IF InRange(code, 10, 59) THEN "float"
    ELSE IF InRange(code, 60, 99) THEN "integer"
    ELSE IF InRange(code, 100, 109) THEN "string"
    ELSE IF InRange(code, 110, 149) THEN "float"
    ELSE IF InRange(code, 160, 179) THEN "integer"
    ELSE IF InRange(code, 210, 239) THEN "float"
    ELSE IF InRange(code, 270, 289) THEN "integer"
    ELSE IF InRange(code, 290, 299) THEN "boolean"
    ELSE IF InRange(code, 300, 369) THEN "string"
    ELSE IF InRange(code, 370, 389) THEN "integer"
    ELSE IF InRange(code, 390, 399) THEN "string"
    ELSE IF InRange(code, 400, 409) THEN "integer"
    ELSE IF InRange(code, 410, 419) THEN "string"
    ELSE IF InRange(code, 420, 429) THEN "integer"
    ELSE IF InRange(code, 430, 439) THEN "string"
    ELSE IF InRange(code, 440, 459) THEN "integer"
    ELSE IF InRange(code, 460, 469) THEN "float"
    ELSE IF InRange(code, 470, 481) THEN "string"
    ELSE IF InRange(code, 999, 999) THEN "string"
    ELSE IF InRange(code, 1000, 1009) THEN "string"
    ELSE IF InRange(code, 1010, 1059) THEN "float"
    ELSE IF InRange(code, 1060, 1071) THEN "integer"
    ELSE "string"

\* parseGroupValue with the first float range written 10..60
parseGroupValueOffByOne(s, code, value) ==
    LET t == IF InRange(code, 60, 60) THEN "float" ELSE groupValueType(code)
    IN  CASE t = "float" ->
               [threw |-> FALSE, value |-> FloatValue(parseFloat(value)), error |-> Undefined]
          [] t = "integer" ->
               [threw |-> FALSE, value |-> IntegerValue(parseInt(Some(value))), error |-> Undefined]
          [] t = "boolean" -> parseBoolean(s, value)
          [] OTHER ->
               [threw |-> FALSE, value |-> StringValue(value), error |-> Undefined]

parseGroupValue(s, code, value) ==
    LET t == groupValueType(code)
    IN  CASE t = "float" ->
               [threw |-> FALSE, value |-> FloatValue(parseFloat(value)), error |-> Undefined]
          [] t = "integer" ->
               [threw |-> FALSE, value |-> IntegerValue(parseInt(Some(value))), error |-> Undefined]
          [] t = "boolean" -> parseBoolean(s, value)
          [] OTHER ->
               [threw |-> FALSE, value |-> StringValue(value), error |-> Undefined]

\* group.code === 0 && group.value === 'EOF'
isEOFGroup(group) ==
    /\ ~group.code.nan /\ group.code.m = 0
    /\ group.value.type = "string" /\ group.value.str = EOFString

\* the error next() and peek() throw when hasNext() is false
noNextError(s, afterEOF) ==
    IF ~s.eof
    THEN DxfParseError(NeedMoreData, Undefined, Some(s.lineNumber), Undefined, Undefined)
    ELSE DxfParseError(afterEOF, Undefined, Some(s.lineNumber), Undefined, Undefined)

\* next that returns the group at the pointer without moving past it
nextWithoutAdvance(s) ==
    IF ~hasNext(s) THEN [s |-> s, ret |-> Throw("next", 0, noNextError(s, NextAfterEOF))]
    ELSE
        LET code == parseInt(lineAt(s, s.pointer))
            raw  == lineAt(s, s.pointer + 1)
        IN  IF raw = Undefined THEN [s |-> s, ret |-> Throw("next", 0, TypeError)]
            ELSE
                LET pv == parseGroupValue(s, code, trim(raw[1]))
                    group == [code |-> code, value |-> pv.value]
                    s2 == [s EXCEPT !.eof = IF isEOFGroup(group) THEN TRUE ELSE @,
                                    !.lastReadGroup = Some(group)]
                IN  IF pv.threw THEN [s |-> s, ret |-> Throw("next", 0, pv.error[1])]
                    ELSE [s |-> s2, ret |-> Return("next", 0, group)]

next(s) ==
    IF ~hasNext(s) THEN [s |-> s, ret |-> Throw("next", 0, noNextError(s, NextAfterEOF))]
    ELSE
        LET code == parseInt(lineAt(s, s.pointer))
            s1   == [s EXCEPT !.pointer = @ + 1, !.lineNumber = @ + 1]
            raw  == lineAt(s1, s1.pointer)
        IN  IF raw = Undefined THEN [s |-> s1, ret |-> Throw("next", 0, TypeError)]
            ELSE
                LET pv == parseGroupValue(s1, code, trim(raw[1]))
                    group == [code |-> code, value |-> pv.value]
                    s2 == [s1 EXCEPT !.pointer = @ + 1, !.lineNumber = @ + 1,
                                     !.eof = IF isEOFGroup(group) THEN TRUE ELSE @,
                                     !.lastReadGroup = Some(group)]
                IN  IF pv.threw THEN [s |-> s1, ret |-> Throw("next", 0, pv.error[1])]
                    ELSE [s |-> s2, ret |-> Return("next", 0, group)]

\* peek that reads the group the way next() does, advancing the cursor
peekAdvancing(s) ==
    [s |-> next(s).s, ret |-> [next(s).ret EXCEPT !.op = "peek"]]

\* peek that returns the value line as text, without parseGroupValue
peekWithoutCast(s) ==
    IF ~hasNext(s) THEN [s |-> s, ret |-> Throw("peek", 0, noNextError(s, PeekAfterEOF))]
    ELSE
        LET code == parseInt(lineAt(s, s.pointer))
            raw  == lineAt(s, s.pointer + 1)
        IN  IF raw = Undefined THEN [s |-> s, ret |-> Throw("peek", 0, TypeError)]
            ELSE [s |-> s, ret |-> Return("peek", 0, [code |-> code, value |-> StringValue(trim(raw[1]))])]

peek(s) ==
    IF ~hasNext(s) THEN [s |-> s, ret |-> Throw("peek", 0, noNextError(s, PeekAfterEOF))]
    ELSE
        LET code == parseInt(lineAt(s, s.pointer))
            raw  == lineAt(s, s.pointer + 1)
        IN  IF raw = Undefined THEN [s |-> s, ret |-> Throw("peek", 0, TypeError)]
            ELSE
                LET pv == parseGroupValue(s, code, trim(raw[1]))
                IN  IF pv.threw THEN [s |-> s, ret |-> Throw("peek", 0, pv.error[1])]
                    ELSE [s |-> s, ret |-> Return("peek", 0, [code |-> code, value |-> pv.value])]

\* rewind that moves back one line per group instead of two
rewindOneLinePerGroup(s, numberOfGroups) ==
    LET s1 == [s EXCEPT !.pointer = @ - numberOfGroups,
                        !.lineNumber = @ - numberOfGroups]
        s2 == IF s1.lineNumber < 0 THEN [s1 EXCEPT !.lineNumber = 0] ELSE s1
    IN  [s |-> s2, ret |-> Return("rewind", numberOfGroups, Void)]

rewind(s, numberOfGroups) ==
    LET s1 == [s EXCEPT !.pointer = @ - numberOfGroups * 2,
                        !.lineNumber = @ - numberOfGroups * 2]
        s2 == IF s1.lineNumber < 0 THEN [s1 EXCEPT !.lineNumber = 0] ELSE s1
    IN  [s |-> s2, ret |-> Return("rewind", numberOfGroups, Void)]

----------------------------------------------------------------------------
(* The texts a source delivers *)

Texts ==
    { <<>>,
      <<"0", LF, "E", "O", "F", LF>>,
      <<"0", CR, LF, "E", "O", "F", CR, LF>>,
      <<"0", CR, "E", "O", "F">>,
      <<" ", "0", LF, " ", "E", "O", "F", " ", LF>>,
      <<"2", "9", "0", LF, "1", LF, "0", LF, "E", "O", "F", LF>>,
      <<"2", "9", "0", LF, "q", LF, "0", LF, "E", "O", "F", LF>>,
      <<"1", "0", LF, "1", ".", "5", "0", LF, "0", LF, "E", "O", "F", LF>>,
      <<"2", LF, "q", LF, "7", "0", LF, "2">>,
      <<"0", LF, "E", "O", "F", LF, "1", LF, "q", LF>> }

----------------------------------------------------------------------------
(* The scanner driven call by call *)

Init ==
    /\ scanner = NewScanner
    /\ text \in Texts
    /\ pos = 0
    /\ ret = NoCall
    /\ prev = NoCall
    /\ parseFn = "none"
    /\ promise = [state |-> "none", reason |-> Undefined]
    /\ stream = [ended |-> FALSE, errored |-> FALSE]
    /\ doc = NoDoc
    /\ pc = "idle"

Call(r) ==
    /\ scanner' = r.s
    /\ ret' = [r.ret EXCEPT !.line = getCurrentLineNumber(r.s)]
    /\ prev' = ret

\* scanner.addChunk(chunk), chunk the next k characters of the text
AddChunk ==
    \E k \in 1..(Len(text) - pos) :
        /\ Call(addChunk(scanner, SubSeq(text, pos + 1, pos + k)))
        /\ pos' = pos + k
        /\ UNCHANGED <<text, parseFn, promise, stream, doc, pc>>

\* scanner.finalize(), called when the source has delivered all its text
Finalize ==
    /\ pos = Len(text)
    /\ Call(finalize(scanner))
    /\ UNCHANGED <<text, pos, parseFn, promise, stream, doc, pc>>

\* scanner.next()
Next_ ==
    /\ Call(next(scanner))
    /\ UNCHANGED <<text, pos, parseFn, promise, stream, doc, pc>>

\* scanner.peek()
Peek ==
    /\ Call(peek(scanner))
    /\ UNCHANGED <<text, pos, parseFn, promise, stream, doc, pc>>

\* scanner.rewind(n)
Rewind ==
    \E n \in 1..MaxRewind :
        /\ scanner.pointer - 2 * n >= 0 - MaxBelow
        /\ Call(rewind(scanner, n))
        /\ UNCHANGED <<text, pos, parseFn, promise, stream, doc, pc>>

\* scanner.hasNext()
HasNext ==
    /\ Call([s |-> scanner, ret |-> Return("hasNext", 0, BooleanValue(hasNext(scanner)))])
    /\ UNCHANGED <<text, pos, parseFn, promise, stream, doc, pc>>

\* scanner.isEOF()
IsEOF ==
    /\ Call([s |-> scanner, ret |-> Return("isEOF", 0, BooleanValue(isEOF(scanner)))])
    /\ UNCHANGED <<text, pos, parseFn, promise, stream, doc, pc>>

\* scanner.needsData()
NeedsData ==
    /\ Call([s |-> scanner, ret |-> Return("needsData", 0, BooleanValue(needsData(scanner)))])
    /\ UNCHANGED <<text, pos, parseFn, promise, stream, doc, pc>>

\* scanner.getCurrentLineNumber()
GetCurrentLineNumber ==
    /\ Call([s |-> scanner, ret |-> Return("getCurrentLineNumber", 0, Num(getCurrentLineNumber(scanner), 0))])
    /\ UNCHANGED <<text, pos, parseFn, promise, stream, doc, pc>>

Next ==
    \/ AddChunk
    \/ Finalize
    \/ Next_
    \/ Peek
    \/ Rewind
    \/ HasNext
    \/ IsEOF
    \/ NeedsData
    \/ GetCurrentLineNumber

Spec == Init /\ [][Next]_vars

----------------------------------------------------------------------------
(* parseStreamIncremental *)

SectionString == <<"S", "E", "C", "T", "I", "O", "N">>

StreamTexts ==
    Texts \cup
    { <<"0", LF, "S", "E", "C", "T", "I", "O", "N", LF, "2", LF, "H", LF,
        "0", LF, "E", "O", "F", LF>>,
      <<"0", LF, "S", "E", "C", "T", "I", "O", "N", LF, "2", LF, "H", LF>> }

\* the parse steps handed in as parseFn: one reads a single group, the other
\* reads a group and, when it is the SECTION marker, the name group after it
ParseFns == {"group", "section"}

isSectionGroup(group) ==
    /\ ~group.code.nan /\ group.code.m = 0
    /\ group.value.type = "string" /\ group.value.str = SectionString

parseGroup(s) == next(s)

parseSection(s) ==
    LET r == next(s)
    IN  IF r.ret.kind = "return" /\ isSectionGroup(r.ret.value[1])
        THEN next(r.s)
        ELSE r

callParseFn(fn, s) == IF fn = "section" THEN parseSection(s) ELSE parseGroup(s)

\* while (!scanner.needsData() && !scanner.isEOF()) parseFn(scanner);
\* r is the scanner and the outcome of the last call made; a throw leaves the loop
RECURSIVE dataLoop(_, _)
dataLoop(fn, r) ==
    IF r.ret.kind = "throw" THEN r
    ELSE IF ~needsData(r.s) /\ ~isEOF(r.s) THEN dataLoop(fn, callParseFn(fn, r.s))
    ELSE r

\* while (!scanner.isEOF() && scanner.hasNext()) parseFn(scanner);
RECURSIVE endLoop(_, _)
endLoop(fn, r) ==
    IF r.ret.kind = "throw" THEN r
    ELSE IF ~isEOF(r.s) /\ hasNext(r.s) THEN endLoop(fn, callParseFn(fn, r.s))
    ELSE r

\* resolve that settles the promise again after it was rejected
resolveAgain(p) ==
    IF p.state \in {"pending", "rejected"} THEN [state |-> "resolved", reason |-> Undefined] ELSE p

\* a promise settles once: resolve and reject do nothing afterwards
resolve(p) ==
    IF p.state = "pending" THEN [state |-> "resolved", reason |-> Undefined] ELSE p

reject(p, err) ==
    IF p.state = "pending" THEN [state |-> "rejected", reason |-> Some(err)] ELSE p

\* the error the transport emits
TransportError ==
    [name |-> "Error",
     message |-> <<[name |-> "message", value |-> "Stream read error"]>>,
     str |-> Undefined,
     line |-> Undefined, section |-> Undefined, cause |-> Undefined,
     pointer |-> Undefined, groupCode |-> Undefined, groupValue |-> Undefined,
     code |-> Undefined, rawValue |-> Undefined, expectedType |-> Undefined]

InitStream ==
    /\ scanner = NewScanner
    /\ text \in StreamTexts
    /\ pos = 0
    /\ ret = NoCall
    /\ prev = NoCall
    /\ parseFn \in ParseFns
    /\ promise = [state |-> "pending", reason |-> Undefined]
    /\ stream = [ended |-> FALSE, errored |-> FALSE]
    /\ doc = NoDoc
    /\ pc = "idle"

\* the body of the 'data' handler's try block
dataHandler(fn, s, chunk) ==
    dataLoop(fn, addChunk(s, chunk))

\* the body of the 'end' handler's try block, up to resolve()
endHandler(fn, s) ==
    endLoop(fn, finalize(s))

\* stream.on('data', ...): the next k characters of the text arrive
OnData ==
    \E k \in 1..(Len(text) - pos) :
        /\ ~stream.ended
        /\ Call(dataHandler(parseFn, scanner, SubSeq(text, pos + 1, pos + k)))
        /\ promise' = IF ret'.kind = "throw" THEN reject(promise, ret'.error[1]) ELSE promise
        /\ pos' = pos + k
        /\ UNCHANGED <<text, parseFn, stream, doc, pc>>

\* stream.on('end', ...): the source has delivered all its text
OnEnd ==
    /\ ~stream.ended
    /\ pos = Len(text)
    /\ Call(endHandler(parseFn, scanner))
    /\ promise' = IF ret'.kind = "throw" THEN reject(promise, ret'.error[1]) ELSE resolve(promise)
    /\ stream' = [stream EXCEPT !.ended = TRUE]
    /\ UNCHANGED <<text, pos, parseFn, doc, pc>>

\* stream.on('error', ...): the transport fails
OnError ==
    /\ ~stream.ended
    /\ ~stream.errored
    /\ promise' = reject(promise, DxfParseError(StreamError, Undefined, Undefined, Undefined, Some(TransportError)))
    /\ stream' = [stream EXCEPT !.errored = TRUE]
    /\ UNCHANGED <<scanner, text, pos, ret, prev, parseFn, doc, pc>>

NextStream ==
    \/ OnData
    \/ OnEnd
    \/ OnError

SpecStream == InitStream /\ [][NextStream]_vars

----------------------------------------------------------------------------
(* parseStreamIncremental, one iteration of a handler's while loop at a time *)

InitLoop ==
    /\ scanner = NewScanner
    /\ text \in StreamTexts
    /\ pos = 0
    /\ ret = NoCall
    /\ prev = NoCall
    /\ parseFn \in ParseFns
    /\ promise = [state |-> "pending", reason |-> Undefined]
    /\ stream = [ended |-> FALSE, errored |-> FALSE]
    /\ doc = NoDoc
    /\ pc = "idle"

\* the condition of the while loop of the handler h
loopGuard(h, s) ==
    IF h = "data" THEN ~needsData(s) /\ ~isEOF(s)
    ELSE ~isEOF(s) /\ hasNext(s)

\* a 'data' event: the handler starts with scanner.addChunk(chunk.toString())
DataArrives ==
    \E k \in 1..(Len(text) - pos) :
        /\ pc = "idle"
        /\ ~stream.ended
        /\ Call(addChunk(scanner, SubSeq(text, pos + 1, pos + k)))
        /\ pos' = pos + k
        /\ pc' = "data"
        /\ UNCHANGED <<text, parseFn, promise, stream, doc>>

\* the 'end' event: the handler starts with scanner.finalize()
EndArrives ==
    /\ pc = "idle"
    /\ ~stream.ended
    /\ pos = Len(text)
    /\ Call(finalize(scanner))
    /\ stream' = [stream EXCEPT !.ended = TRUE]
    /\ pc' = "end"
    /\ UNCHANGED <<text, pos, parseFn, promise, doc>>

\* one iteration: the loop condition holds and parseFn(scanner) runs; a throw
\* is caught, rejects the result and ends the handler
LoopStep ==
    /\ pc # "idle"
    /\ loopGuard(pc, scanner)
    /\ Call(callParseFn(parseFn, scanner))
    /\ promise' = IF ret'.kind = "throw" THEN reject(promise, ret'.error[1]) ELSE promise
    /\ pc' = IF ret'.kind = "throw" THEN "idle" ELSE pc
    /\ UNCHANGED <<text, pos, parseFn, stream, doc>>

\* the loop condition fails: the data handler returns, the end handler
\* calls resolve() and returns
LoopExit ==
    /\ pc # "idle"
    /\ ~loopGuard(pc, scanner)
    /\ promise' = IF pc = "end" THEN resolve(promise) ELSE promise
    /\ pc' = "idle"
    /\ UNCHANGED <<scanner, text, pos, ret, prev, parseFn, stream, doc>>

\* the 'error' event, between two handlers
ErrorEvent ==
    /\ pc = "idle"
    /\ OnError

NextLoop ==
    \/ DataArrives
    \/ EndArrives
    \/ LoopStep
    \/ LoopExit
    \/ ErrorEvent

\* weak fairness of LoopStep, WF_vars(LoopStep), with its enabling condition
\* written out: LoopStep can be taken exactly when a handler is running and
\* its loop condition holds (parseFn is then called, whatever it does)
LoopStepFair ==
    \/ []<>~(pc # "idle" /\ loopGuard(pc, scanner))
    \/ []<><<LoopStep>>_vars

\* a handler runs to completion once it has started: nothing else runs
\* between two iterations of its loop or before it returns
SpecLoop ==
    /\ InitLoop
    /\ [][NextLoop]_vars
    /\ LoopStepFair
    /\ WF_vars(LoopExit)

----------------------------------------------------------------------------
(* The coercion table: one group per text, for every code and a few literals *)

DigitChar(d) ==
    CASE d = 0 -> "0" [] d = 1 -> "1" [] d = 2 -> "2" [] d = 3 -> "3"
      [] d = 4 -> "4" [] d = 5 -> "5" [] d = 6 -> "6" [] d = 7 -> "7"
      [] d = 8 -> "8" [] d = 9 -> "9"

\* the decimal text of a code
RECURSIVE CodeText(_)
CodeText(n) ==
    IF n < 10 THEN <<DigitChar(n)>>
    ELSE Append(CodeText(n \div 10), DigitChar(n % 10))

RawValues == { <<"0">>, <<"1">>, <<"q">>, <<" ", "2", ".", "5">> }

InitCoerce ==
    /\ scanner = NewScanner
    /\ \E c \in 0..MaxCode, raw \in RawValues :
           text = CodeText(c) \o <<LF>> \o raw \o <<LF>>
    /\ pos = 0
    /\ ret = NoCall
    /\ prev = NoCall
    /\ parseFn = "none"
    /\ promise = [state |-> "none", reason |-> Undefined]
    /\ stream = [ended |-> FALSE, errored |-> FALSE]
    /\ doc = NoDoc
    /\ pc = "idle"

\* scanner.addChunk(text): the whole text in one chunk
AddText ==
    /\ pos = 0
    /\ Call(addChunk(scanner, text))
    /\ pos' = Len(text)
    /\ UNCHANGED <<text, parseFn, promise, stream, doc, pc>>

NextCoerce ==
    \/ AddText
    \/ Next_
    \/ Peek

SpecCoerce == InitCoerce /\ [][NextCoerce]_vars

----------------------------------------------------------------------------
(* Line endings: a document of a few lines, each with a terminator of its own *)

\* the lines a document is written from
DocLines == {<<>>, <<"0">>, EOFString}

Docs ==
    UNION { { [lines |-> ls, ends |-> es] :
                ls \in [1..n -> DocLines], es \in [1..n -> LineTerminators] } :
            n \in 0..MaxDocLines }

InitEndings ==
    /\ scanner = NewScanner
    /\ doc \in Docs
    /\ pc = "idle"
    /\ text = TextOf(doc)
    /\ pos = 0
    /\ ret = NoCall
    /\ prev = NoCall
    /\ parseFn = "none"
    /\ promise = [state |-> "none", reason |-> Undefined]
    /\ stream = [ended |-> FALSE, errored |-> FALSE]

NextEndings ==
    \/ AddText
    \/ Finalize
    \/ Next_

SpecEndings == InitEndings /\ [][NextEndings]_vars

----------------------------------------------------------------------------
(* The error classes: one error constructed per step *)

\* an optional value drawn from S
Optional(S) == {Undefined} \cup {Some(v) : v \in S}

Numbers == 0..MaxField
SectionNames == {<<"H">>}
GroupTexts == {<<>>, EOFString}
TypeNames == {<<"B", "o", "o", "l", "e", "a", "n">>}
Causes == Optional({TransportError})

InitErrors ==
    /\ scanner = NewScanner
    /\ text = <<>>
    /\ pos = 0
    /\ ret = NoCall
    /\ prev = NoCall
    /\ parseFn = "none"
    /\ promise = [state |-> "none", reason |-> Undefined]
    /\ stream = [ended |-> FALSE, errored |-> FALSE]
    /\ doc = NoDoc
    /\ pc = "idle"

\* throw new DxfParseError(message, line, section, cause)
NewParseError ==
    \E line \in Optional(Numbers), section \in Optional(SectionNames), cause \in Causes :
        /\ Call([s |-> scanner,
                 ret |-> Throw("DxfParseError", 0,
                               DxfParseError(StreamError, Undefined, line, section, cause))])
        /\ UNCHANGED <<text, pos, parseFn, promise, stream, doc, pc>>

\* throw new DxfScannerError(message, pointer, groupCode, groupValue, cause)
NewScannerError ==
    \E pointer \in Numbers, groupCode \in Optional(Numbers),
       groupValue \in Optional(GroupTexts), cause \in Causes :
        /\ Call([s |-> scanner,
                 ret |-> Throw("DxfScannerError", 0,
                               DxfScannerError(NeedMoreData, pointer, groupCode, groupValue, cause))])
        /\ UNCHANGED <<text, pos, parseFn, promise, stream, doc, pc>>

\* throw new DxfValueError(message, code, rawValue, expectedType)
NewValueError ==
    \E code \in Numbers, rawValue \in GroupTexts, expectedType \in Optional(TypeNames) :
        /\ Call([s |-> scanner,
                 ret |-> Throw("DxfValueError", 0,
                               DxfValueError(CannotCast, code, rawValue, expectedType))])
        /\ UNCHANGED <<text, pos, parseFn, promise, stream, doc, pc>>

NextErrors ==
    \/ NewParseError
    \/ NewScannerError
    \/ NewValueError

SpecErrors == InitErrors /\ [][NextErrors]_vars

----------------------------------------------------------------------------
(* Properties *)

CallOutcome(r) == r.ret
ScannerAfter(r) == r.s

\* the scanner after one addChunk of the whole text followed by finalize
WholeScanner(t) == ScannerAfter(finalize(ScannerAfter(addChunk(NewScanner, t))))

\* the groups repeated next() returns, up to the first call that throws
RECURSIVE ReadGroups(_, _)
ReadGroups(r, acc) ==
    IF CallOutcome(r).kind = "throw" THEN acc
    ELSE ReadGroups(next(ScannerAfter(r)), Append(acc, CallOutcome(r).value[1]))

GroupsOf(ls) == ReadGroups(next([NewScanner EXCEPT !.lines = ls]), <<>>)

\* the number of buffered lines at and after the pointer
Unread(s) == Cardinality({i \in 0..(Len(s.lines) - 1) : i >= s.pointer})

\* C1: chunk boundaries carry no meaning: once all chunks of a text were
\* added in order and finalize was called, the completed lines, and so the
\* groups read from them, are those of one addChunk of the whole text
\* followed by finalize.
C1_ChunkBoundariesCarryNoMeaning ==
    (ret.op = "finalize" /\ pos = Len(text)) =>
        /\ scanner.lines = WholeScanner(text).lines
        /\ GroupsOf(scanner.lines) = GroupsOf(WholeScanner(text).lines)

\* C2: when the stream has ended and no (0, "EOF") group was read, the
\* result of parseStreamIncremental is rejected with the 'unexpected end of
\* input' error; it is never resolved.
C2_TruncatedSourceRejects ==
    (stream.ended /\ ~isEOF(scanner)) =>
        /\ promise.state = "rejected"
        /\ BaseMessage(promise.reason[1]) = NeedMoreData

\* C3: EOF is permanent: a next() that returns (0, "EOF") sets the EOF flag,
\* and from a state with the flag set every call leaves isEOF() true and
\* hasNext() false, and every next() or peek() throws.
C3_EOFIsPermanent ==
    [][ /\ (ret'.op = "next" /\ ret'.kind = "return" /\ isEOFGroup(ret'.value[1]))
            => isEOF(scanner')
        /\ isEOF(scanner) =>
            /\ isEOF(scanner')
            /\ ~hasNext(scanner')
            /\ (ret'.op \in {"next", "peek"} => ret'.kind = "throw")
      ]_vars

\* C3 witness: after EOF was read and the scanner rewound, next() was called
\* with two or more lines buffered at the pointer, and threw
C3_Witness ==
    /\ isEOF(scanner)
    /\ prev.op = "rewind"
    /\ ret.op = "next" /\ ret.kind = "throw"
    /\ Unread(scanner) >= 2

\* C4: the three cursor failures are told apart by message: next() with the
\* EOF flag set throws 'Cannot call next after EOF', peek() with it set throws
\* 'Cannot call peek after EOF', next()/peek() with the flag not set and fewer
\* than two unread lines buffered throws 'need more data'; an after-EOF
\* message is only thrown with the flag set, 'need more data' only without.
C4_FailuresToldApart ==
    [][ ret'.op \in {"next", "peek"} =>
          /\ isEOF(scanner) =>
                /\ ret'.kind = "throw"
                /\ BaseMessage(ret'.error[1]) =
                       (IF ret'.op = "next" THEN NextAfterEOF ELSE PeekAfterEOF)
          /\ (~isEOF(scanner) /\ Unread(scanner) < 2) =>
                /\ ret'.kind = "throw"
                /\ BaseMessage(ret'.error[1]) = NeedMoreData
          /\ (ret'.kind = "throw"
                /\ BaseMessage(ret'.error[1]) \in {NextAfterEOF, PeekAfterEOF})
                => isEOF(scanner)
          /\ (ret'.kind = "throw" /\ BaseMessage(ret'.error[1]) = NeedMoreData)
                => ~isEOF(scanner)
      ]_vars

\* C5: insufficient buffered input and next()/peek() after EOF are raised as
\* a DxfScannerError that carries the current pointer.
C5_RaisesScannerError ==
    (/\ ret.op \in {"next", "peek"}
     /\ ret.kind = "throw"
     /\ BaseMessage(ret.error[1]) \in {NeedMoreData, NextAfterEOF, PeekAfterEOF})
        => /\ ret.error[1].name = "DxfScannerError"
           /\ ret.error[1].pointer = Some(scanner.pointer)

\* C6: for a group whose code is in 290..299 the literal "0" gives false and
\* "1" gives true, and any other literal makes next()/peek() throw a
\* DxfValueError whose code is the group code and whose rawValue is the literal.
C6_BooleanCoercion ==
    [][ (/\ ret'.op \in {"next", "peek"}
         /\ hasNext(scanner)
         /\ lineAt(scanner, scanner.pointer + 1) # Undefined
         /\ InRange(parseInt(lineAt(scanner, scanner.pointer)), 290, 299))
        => LET code    == parseInt(lineAt(scanner, scanner.pointer))
               literal == trim(lineAt(scanner, scanner.pointer + 1)[1])
           IN  IF literal = <<"0">>
               THEN ret'.kind = "return" /\ ret'.value[1].value = BooleanValue(FALSE)
               ELSE IF literal = <<"1">>
               THEN ret'.kind = "return" /\ ret'.value[1].value = BooleanValue(TRUE)
               ELSE /\ ret'.kind = "throw"
                    /\ ret'.error[1].name = "DxfValueError"
                    /\ ret'.error[1].code = Some(code.m)
                    /\ ret'.error[1].rawValue = Some(literal)
      ]_vars

\* the documented table of type categories by code range
DocumentedFloat ==
    (10..59) \cup (110..149) \cup (210..239) \cup (460..469) \cup (1010..1059)
DocumentedInteger ==
    (60..99) \cup (160..179) \cup (270..289) \cup (370..389) \cup (400..409)
        \cup (420..429) \cup (440..459) \cup (1060..1071)
DocumentedBoolean == 290..299
DocumentedString ==
    (0..9) \cup (100..109) \cup (300..369) \cup (390..399) \cup (410..419)
        \cup (430..439) \cup (470..481) \cup {999} \cup (1000..1009)

DocumentedType(c) ==
    IF c \in DocumentedString THEN "string"
    ELSE IF c \in DocumentedFloat THEN "float"
    ELSE IF c \in DocumentedInteger THEN "integer"
    ELSE IF c \in DocumentedBoolean THEN "boolean"
    ELSE "string"

\* C7: the type category of the value next() and peek() return is the one
\* the documented range table gives for the group's code, whatever the
\* literal; the boolean cast error is only thrown for a code the table makes
\* boolean.
C7_TypeCategoryByCode ==
    /\ (ret.op \in {"next", "peek"} /\ ret.kind = "return"
            /\ InRange(ret.value[1].code, 0, MaxCode))
        => ret.value[1].value.type = DocumentedType(ret.value[1].code.m)
    /\ (ret.op \in {"next", "peek"} /\ ret.kind = "throw"
            /\ BaseMessage(ret.error[1]) = CannotCast)
        => DocumentedType(parseInt(lineAt(scanner, 0)).m) = "boolean"

\* C7 witness: peek() returned the group of the last code of the last
\* integer range, with an integer value
C7_Witness ==
    /\ ret.op = "peek" /\ ret.kind = "return"
    /\ ret.value[1].code = Num(1071, 0)
    /\ ret.value[1].value.type = "integer"
    /\ ret.value[1].value.num = Num(2, 0)

\* C8 as stated: after a next() that returned a group g, rewind(1) and then
\* next() returns a group equal to g and leaves the line counter where the
\* first next() left it (g = (0, "EOF") included).
C8_RewindUndoesAnyNext ==
    [][ (/\ prev.op = "next" /\ prev.kind = "return"
         /\ ret.op = "rewind" /\ ret.arg = 1
         /\ ret'.op = "next")
        => /\ ret'.kind = "return"
           /\ ret'.value = prev.value
           /\ ret'.line = prev.line
      ]_vars

\* C8 amended: after a next() that returned a group g other than
\* (0, "EOF"), rewind(1) and then next() returns a group equal to g and
\* leaves the line counter where the first next() left it.
C8_RewindUndoesNext ==
    [][ (/\ prev.op = "next" /\ prev.kind = "return"
         /\ ~isEOFGroup(prev.value[1])
         /\ ret.op = "rewind" /\ ret.arg = 1
         /\ ret'.op = "next")
        => /\ ret'.kind = "return"
           /\ ret'.value = prev.value
           /\ ret'.line = prev.line
      ]_vars

\* C8 witness: next() called right after rewind(1) returned the group that
\* was last read before the rewind, which is not the EOF group
C8_Witness ==
    /\ prev.op = "rewind" /\ prev.arg = 1
    /\ ret.op = "next" /\ ret.kind = "return"
    /\ ~isEOFGroup(ret.value[1])
    /\ ret.line = prev.line + 2
    /\ scanner.pointer = 2

\* C9: after any sequence of operations the pointer and the line counter
\* are >= 0 (rewind clamps both at zero) and the line counter equals the
\* pointer.
C9_PointerAndLineClamped ==
    /\ scanner.pointer >= 0
    /\ scanner.lineNumber >= 0
    /\ scanner.lineNumber = scanner.pointer

\* C10: every successful next() increases the pointer and the line counter
\* by exactly 2; no operation other than rewind decreases either; addChunk,
\* finalize, peek, hasNext, needsData, isEOF and getCurrentLineNumber leave
\* both unchanged.
C10_OnlyNextAdvances ==
    [][ /\ (ret'.op = "next" /\ ret'.kind = "return")
            => /\ scanner'.pointer = scanner.pointer + 2
               /\ scanner'.lineNumber = scanner.lineNumber + 2
        /\ ret'.op # "rewind"
            => /\ scanner'.pointer >= scanner.pointer
               /\ scanner'.lineNumber >= scanner.lineNumber
        /\ ret'.op \in {"addChunk", "finalize", "peek", "hasNext", "needsData",
                        "isEOF", "getCurrentLineNumber"}
            => /\ scanner'.pointer = scanner.pointer
               /\ scanner'.lineNumber = scanner.lineNumber
      ]_vars

\* C10 witness: a successful peek() followed by a successful next() that
\* left the line counter 2 above where peek() left it
C10_Witness ==
    /\ prev.op = "peek" /\ prev.kind = "return"
    /\ ret.op = "next" /\ ret.kind = "return"
    /\ ret.line = prev.line + 2
    /\ scanner.lineNumber = ret.line

\* C11: peek() is a pure lookahead: it succeeds exactly when next() would
\* succeed from the same state and then returns the group next() would
\* return; it leaves the scanner (pointer, line counter, EOF flag,
\* lastReadGroup) as it was, also when the group is (0, "EOF"); a next()
\* that follows a successful peek(), directly or after an addChunk or a
\* finalize, returns the peeked group.
C11_PeekIsPureLookahead ==
    [][ /\ ret'.op = "peek" =>
              /\ scanner' = scanner
              /\ (ret'.kind = "return") = (CallOutcome(next(scanner)).kind = "return")
              /\ ret'.kind = "return" => ret'.value = CallOutcome(next(scanner)).value
        /\ (ret.op = "peek" /\ ret.kind = "return" /\ ret'.op = "next") =>
              /\ ret'.kind = "return"
              /\ ret'.value = ret.value
        /\ (/\ prev.op = "peek" /\ prev.kind = "return"
            /\ ret.op \in {"addChunk", "finalize"}
            /\ ret'.op = "next") =>
              /\ ret'.kind = "return"
              /\ ret'.value = prev.value
      ]_<<ret.op, prev.op, vars>>

\* C11 witness: peek() returned the EOF group leaving the EOF flag unset,
\* and the next() that followed returned the same group and set the flag
C11_Witness ==
    /\ prev.op = "peek" /\ prev.kind = "return"
    /\ isEOFGroup(prev.value[1])
    /\ ret.op = "next" /\ ret.kind = "return"
    /\ ret.value = prev.value
    /\ scanner.eof

\* C12: the scanner never exposes a partial group: whenever next() or
\* peek() returns a group, the lines at indices pointer and pointer + 1 of
\* the state it was called in both exist in the completed-lines sequence
\* (so the group is built from two completed lines, never from the buffer).
C12_NoPartialGroup ==
    [][ (ret'.op \in {"next", "peek"} /\ ret'.kind = "return") =>
            /\ lineAt(scanner, scanner.pointer) # Undefined
            /\ lineAt(scanner, scanner.pointer + 1) # Undefined
      ]_<<ret.op, prev.op, vars>>

\* C13: hasNext() is true if and only if the EOF flag is not set and at
\* least two completed lines are buffered at and after the pointer, in every
\* reachable state, also after rewind beyond the lines the scanner holds.
C13_HasNextIffTwoUnread ==
    ret.op = "hasNext" =>
        ret.value[1].bool = (~isEOF(scanner) /\ Unread(scanner) >= 2)

\* the text of a formatted message carries m: formatMessage joins the base
\* message and the context parts, so m is in it when the base message is m
MessageCarries(err, m) ==
    \E i \in DOMAIN err.message :
        err.message[i].name = "message" /\ err.message[i].value = m

\* C14: when the stream emits an error event while the result is pending,
\* the result is rejected (not resolved) with a DxfParseError whose message
\* contains the transport error's message.
C14_StreamErrorCarriesTransportMessage ==
    [][ (~stream.errored /\ stream'.errored /\ promise.state = "pending") =>
            /\ promise'.state = "rejected"
            /\ promise'.reason[1].name = "DxfParseError"
            /\ MessageCarries(promise'.reason[1], BaseMessage(TransportError))
      ]_<<ret.op, prev.op, vars>>

\* a line terminated by \r directly followed by an empty line terminated by
\* \n: the two terminators read as the single terminator \r\n
AdjacentCRLF(d) ==
    \E i \in 1..(Len(d.lines) - 1) :
        /\ d.ends[i] = <<CR>>
        /\ d.lines[i + 1] = <<>>
        /\ d.ends[i + 1] = <<LF>>

\* addChunk of the whole text followed by finalize gave the completed lines,
\* and so the groups, of the \n-terminated form of the document
SameAsCanonical ==
    (ret.op = "finalize" /\ pos = Len(text)) =>
        /\ scanner.lines = WholeScanner(TextOf(Canonical(doc))).lines
        /\ GroupsOf(scanner.lines) = GroupsOf(WholeScanner(TextOf(Canonical(doc))).lines)

\* C15 as stated: replacing each line terminator of a \n-terminated
\* document independently by \n, \r or \r\n does not change the completed
\* lines produced by addChunk of the whole text followed by finalize, nor
\* the groups read.
C15_AnyTerminatorPerLine == SameAsCanonical

\* C15 amended: the same, provided no line terminated by \r is directly
\* followed by an empty line terminated by \n.
C15_LineEndingTolerance == ~AdjacentCRLF(doc) => SameAsCanonical

\* C15 witness: a three-line document using all three terminators, with an
\* empty line in it, was added whole and finalized
C15_Witness ==
    /\ ret.op = "finalize" /\ prev.op = "addChunk"
    /\ Len(doc.lines) = 3
    /\ {doc.ends[i] : i \in 1..3} = LineTerminators
    /\ \E i \in 1..3 : doc.lines[i] = <<>>
    /\ ~AdjacentCRLF(doc)
    /\ scanner.lines = doc.lines

\* a well-formed document whose first parse step reads two groups: the
\* SECTION marker and the code-2 name group after it
SectionDocument ==
    <<"0", LF>> \o SectionString \o <<LF, "2", LF, "H", LF, "0", LF>> \o EOFString \o <<LF>>

\* C16: streaming a well-formed document through parseStreamIncremental
\* with a parse step that reads more than one group per invocation (the
\* SECTION marker and its name group) never fails, wherever the chunk
\* boundaries fall: the result is not rejected, and once the end event has
\* been handled it is resolved with the document read up to its EOF group.
C16_MultiGroupStepStreams ==
    (parseFn = "section" /\ text = SectionDocument /\ ~stream.errored) =>
        /\ promise.state # "rejected"
        /\ stream.ended => (promise.state = "resolved" /\ isEOF(scanner))

\* C17: finalize() flushes a non-empty trailing buffer as exactly one last
\* completed line and empties the buffer, changes nothing when the buffer is
\* empty, and a second finalize changes nothing; with a non-empty buffer it
\* leaves the completed lines (and so the groups) that a trailing newline
\* would have given.
C17_FinalizeFlushesOnce ==
    [][ /\ ret'.op = "finalize" =>
              /\ Len(scanner.buffer) > 0 =>
                    /\ scanner' = [scanner EXCEPT !.lines = Append(@, scanner.buffer),
                                                  !.buffer = <<>>]
                    /\ scanner' = ScannerAfter(addChunk(scanner, <<LF>>))
                    /\ GroupsOf(scanner'.lines)
                          = GroupsOf(ScannerAfter(addChunk(scanner, <<LF>>)).lines)
              /\ Len(scanner.buffer) = 0 => scanner' = scanner
        /\ (ret.op = "finalize" /\ ret'.op = "finalize") => scanner' = scanner
      ]_<<ret.op, prev.op, vars>>

\* C17 witness: a text whose last line has no terminator was finalized
\* twice; the first finalize added that line, the second added nothing
C17_Witness ==
    /\ prev.op = "finalize" /\ ret.op = "finalize"
    /\ pos = Len(text) /\ Len(text) > 0
    /\ text[Len(text)] \notin {CR, LF}
    /\ scanner.buffer = <<>>
    /\ scanner.lines = WholeScanner(text).lines
    /\ scanner.lines = WholeScanner(text \o <<LF>>).lines

\* the errors next() throws for lack of buffered input or after EOF
NoInputMessages == {NeedMoreData, NextAfterEOF, PeekAfterEOF}

\* C18: with a parse step that reads one group per invocation, every
\* handler parses all that is buffered and never over-reads: when a handler
\* returns without error the scanner is at EOF or has fewer than two unread
\* completed lines, and no parse step fails for lack of buffered input or
\* because the EOF group was already read.
C18_ParsesAllBufferedNeverOverReads ==
    (parseFn = "group" /\ ret.op # "new") =>
        /\ ret.kind = "return" => (isEOF(scanner) \/ Unread(scanner) < 2)
        /\ ret.kind = "throw" => BaseMessage(ret.error[1]) \notin NoInputMessages

\* C18 witness: a data handler returned after reading a group, stopping
\* short of EOF with a single completed line left unread
C18_Witness ==
    /\ parseFn = "group"
    /\ ret.op = "next" /\ ret.kind = "return"
    /\ ~stream.ended /\ ~isEOF(scanner)
    /\ scanner.pointer >= 2
    /\ Unread(scanner) = 1

\* the result was rejected because a parse step threw (not by a stream error)
ParseFailed ==
    /\ promise.state = "rejected"
    /\ BaseMessage(promise.reason[1]) # StreamError

\* C19: a failed parse attempt is final: once a parse step has thrown in a
\* data handler and the result has been rejected, no later data or end
\* event invokes a parse step or advances the scanner's pointer.
C19_FailedParseIsFinal ==
    [][ ParseFailed => scanner'.pointer = scanner.pointer ]_<<ret.op, prev.op, vars>>

\* the step runs a data or end handler
HandlerStep == pos' # pos \/ stream'.ended # stream.ended

\* C20: the result settles at most once and never resolves wrongly: a
\* settled result never changes; it is resolved only once the end event has
\* been handled; and a handler whose parse step throws, or an error event,
\* while the result is pending leaves it rejected, so that a later end
\* event cannot turn it into a resolution.
C20_SettlesOnceNeverResolvesWrongly ==
    [][ /\ promise.state # "pending" => promise' = promise
        /\ promise'.state = "resolved" => stream'.ended
        /\ (promise.state = "pending" /\ HandlerStep /\ ret'.kind = "throw") =>
               promise'.state = "rejected"
        /\ (promise.state = "pending" /\ ~stream.errored /\ stream'.errored) =>
               promise'.state = "rejected"
        /\ (promise.state = "pending" /\ promise'.state = "resolved") =>
               (ret'.kind = "return" /\ ~stream.errored)
      ]_<<ret.op, prev.op, vars>>

\* C20 witness: the result was rejected, and the end handler that ran
\* afterwards without error left it rejected
C20_Witness ==
    /\ promise.state = "rejected"
    /\ stream.ended
    /\ ret.op = "finalize" /\ ret.kind = "return"

\* an iteration of a handler's loop whose parse step returned
IterationReturned == pc # "idle" /\ pc' = pc /\ ret'.kind = "return"

\* C21: the streaming driver does bounded work and finishes: every
\* iteration of a handler's loop whose parse step returns moves the pointer
\* strictly forward, never past the buffered lines; every handler that has
\* started returns; and once the stream has emitted end or error the result
\* is eventually settled.
C21_DriverTerminatesAndSettles ==
    /\ [][ IterationReturned =>
              /\ scanner'.pointer > scanner.pointer
              /\ scanner'.pointer <= Len(scanner'.lines)
              /\ scanner'.lines = scanner.lines
         ]_<<ret.op, prev.op, vars>>
    /\ (pc # "idle") ~> (pc = "idle")
    /\ (stream.ended \/ stream.errored) ~> (promise.state # "pending")

\* C21 witness: the end handler has returned and resolved the result after
\* its loop and the data handlers' loops read three groups of the document
C21_Witness ==
    /\ pc = "idle"
    /\ stream.ended
    /\ promise.state = "resolved"
    /\ scanner.pointer = 6
    /\ isEOF(scanner)

\* the failures of next() the scanner raises itself
NextFailures == {NeedMoreData, NextAfterEOF, CannotCast}

\* C22: a failing next() leaves the cursor unchanged: when next() throws
\* for lack of data, after EOF or on a boolean coercion failure, the
\* pointer, the line counter, the EOF flag and lastReadGroup keep their
\* values, so the pointer stays at an even offset.
C22_FailingNextLeavesCursor ==
    [][ (/\ ret'.op = "next" /\ ret'.kind = "throw"
         /\ BaseMessage(ret'.error[1]) \in NextFailures) =>
            /\ scanner'.pointer = scanner.pointer
            /\ scanner'.lineNumber = scanner.lineNumber
            /\ scanner'.eof = scanner.eof
            /\ scanner'.lastReadGroup = scanner.lastReadGroup
            /\ scanner.pointer % 2 = 0 => scanner'.pointer % 2 = 0
      ]_<<ret.op, prev.op, vars>>

\* the condition of the data handler's loop and that of the end handler's
DataGuard(s) == ~needsData(s) /\ ~isEOF(s)
EndGuard(s) == ~isEOF(s) /\ hasNext(s)

\* C23: needsData() is true exactly when fewer than two completed lines are
\* buffered at and after the pointer; so whenever the EOF flag is not set it
\* equals not hasNext(), and the driver's two loop guards admit the same
\* states.
C23_NeedsDataIffFewerThanTwoUnread ==
    ret.op = "needsData" =>
        /\ ret.value[1].bool = (Unread(scanner) < 2)
        /\ ~isEOF(scanner) => (ret.value[1].bool = ~hasNext(scanner))
        /\ DataGuard(scanner) = EndGuard(scanner)

\* the number of line terminators in s: every \r and \n, a \r\n counted once
CountTerminators(s) ==
    Cardinality({i \in 1..Len(s) : s[i] \in {CR, LF}})
        - Cardinality({i \in 1..(Len(s) - 1) : s[i] = CR /\ s[i + 1] = LF})

\* the completed lines before the step are a prefix of those after it
LinesOnlyAppended ==
    /\ Len(scanner'.lines) >= Len(scanner.lines)
    /\ SubSeq(scanner'.lines, 1, Len(scanner.lines)) = scanner.lines

\* after an addChunk: no terminator is left in the buffer, and the value
\* returned is the number of lines appended, which is the number of
\* terminators in the old buffer followed by the chunk
AddChunkWellFormed ==
    ret'.op = "addChunk" =>
        /\ \A i \in 1..Len(scanner'.buffer) : scanner'.buffer[i] \notin {CR, LF}
        /\ ret'.value[1] = Num(Len(scanner'.lines) - Len(scanner.lines), 0)
        /\ ret'.value[1].m
              = CountTerminators(scanner.buffer \o SubSeq(text, pos + 1, pos'))

\* the group next() has just returned is returned again by rewind(1) and
\* next() after the addChunk or finalize of this step
ReturnedAgainAfter ==
    /\ CallOutcome(next(ScannerAfter(rewind(scanner', 1)))).kind = "return"
    /\ CallOutcome(next(ScannerAfter(rewind(scanner', 1)))).value = ret.value

\* C24 as stated: after every addChunk the buffer holds no \r or \n and the
\* returned count is the number of lines appended and of terminators
\* matched; no step changes or removes a stored line, so a group returned
\* by next() is returned again unchanged after rewind.
C24_AnyGroupReturnedAgain ==
    [][ /\ AddChunkWellFormed
        /\ LinesOnlyAppended
        /\ (/\ ret.op = "next" /\ ret.kind = "return"
            /\ ret'.op \in {"addChunk", "finalize"}) => ReturnedAgainAfter
      ]_<<ret.op, prev.op, vars>>

\* C24 amended: the same, the group returned again being any group other
\* than (0, "EOF"), after which the EOF flag stays set.
C24_AddChunkKeepsStoreWellFormed ==
    [][ /\ AddChunkWellFormed
        /\ LinesOnlyAppended
        /\ (/\ ret.op = "next" /\ ret.kind = "return"
            /\ ~isEOFGroup(ret.value[1])
            /\ ret'.op \in {"addChunk", "finalize"}) => ReturnedAgainAfter
      ]_<<ret.op, prev.op, vars>>

\* C24 witness: after next() returned a group other than EOF, an addChunk
\* appended two lines to the two already stored
C24_Witness ==
    /\ prev.op = "next" /\ prev.kind = "return"
    /\ ~isEOFGroup(prev.value[1])
    /\ ret.op = "addChunk"
    /\ ret.value[1] = Num(2, 0)
    /\ Len(scanner.lines) = 4
    /\ CallOutcome(next(ScannerAfter(rewind(scanner, 1)))).value = prev.value

\* the context fields in the order formatMessage tests them, the name each
\* is shown under, and how its value is shown
ContextFields ==
    <<"line", "section", "pointer", "groupCode", "groupValue", "code", "rawValue", "expectedType">>

ShownName(f) ==
    CASE f = "groupCode" -> "code"
      [] f = "groupValue" -> "value"
      [] f = "rawValue" -> "value"
      [] f = "expectedType" -> "expected"
      [] OTHER -> f

ShownValue(f, v) ==
    IF f \in {"groupValue", "rawValue"} THEN <<"\"">> \o v \o <<"\"">> ELSE v

IsDefined(err, f) == err[f] # Undefined

\* the defined context fields of an error, in the fixed order
DefinedFields(err) == SelectSeq(ContextFields, LAMBDA f : IsDefined(err, f))

\* C25: an error's message is the base message followed by one part per
\* defined context field, in the order line, section, pointer, groupCode,
\* groupValue, code, rawValue, expectedType; a field whose value is 0 is
\* defined and has its part; an undefined field adds nothing; the wrapped
\* cause adds nothing.
C25_MessageParts ==
    ret.kind = "throw" =>
        /\ ret.error[1].message[1].name = "message"
        /\ Len(ret.error[1].message) = 1 + Len(DefinedFields(ret.error[1]))
        /\ \A i \in 1..Len(DefinedFields(ret.error[1])) :
              /\ ret.error[1].message[i + 1].name
                    = ShownName(DefinedFields(ret.error[1])[i])
              /\ ret.error[1].message[i + 1].value
                    = ShownValue(DefinedFields(ret.error[1])[i],
                                 ret.error[1][DefinedFields(ret.error[1])[i]][1])
        /\ \A i \in DOMAIN ret.error[1].message : ret.error[1].message[i].name # "cause"

\* C25 witness: a scanner error at pointer 0 with group code 0, an empty
\* group value and a cause: the message has the parts pointer: 0, code: 0
\* and value: "" after the base message, and none for the cause
C25_Witness ==
    /\ ret.op = "DxfScannerError" /\ ret.kind = "throw"
    /\ ret.error[1].pointer = Some(0)
    /\ ret.error[1].groupCode = Some(0)
    /\ ret.error[1].groupValue = Some(<<>>)
    /\ ret.error[1].cause # Undefined
    /\ Len(ret.error[1].message) = 4
    /\ ret.error[1].message[2] = [name |-> "pointer", value |-> 0]

=============================================================================
